---- MODULE Spec2Model ----
(***************************************************************************)
(* CineMind retrieval core: agent/trend_analyst.py (index startup,         *)
(* build_search_prompt, analyze_trends) with its callers                   *)
(* agent/coordinator.py and backend/api.py.                                *)
(*                                                                         *)
(* Python values are tagged records, so that values of different Python    *)
(* types can be compared: Str(s), Num(n), None, List(seq), Obj(mapping).   *)
(* A dict is a TLA+ function whose DOMAIN is the set of keys present.      *)
(* A call's outcome is Return(value) or Raise(exception name).             *)
(***************************************************************************)
EXTENDS Integers, Sequences, FiniteSets, TLC

VARIABLES
    profile_json,   \* the profile text handed to the current call
    prompt,         \* outcome of build_search_prompt on profile_json
    pc,             \* position of the module startup of trend_analyst.py
    indexFaiss,     \* data/faiss_index/index.faiss on disk
    artifact,       \* the documents of the index artifact (release / disk)
    fetches,        \* urlretrieve calls made by this startup
    failedAt,       \* the call of this startup that raised, or "none"
    vectorstore,    \* the module global `vectorstore`
    k,              \* the k of the current analyze_trends call
    apc,            \* position of the current analyze_trends call
    searches,       \* similarity_search_with_score calls made by the call
    results,        \* outcome of the search: Return(<<hit, ...>>) or Raise
    outcome,        \* outcome of analyze_trends
    response,       \* what the caller of the last finished call was given
    calls,          \* the locals of each of the concurrent analyze_trends calls
    cell,           \* a genres / keywords cell of the raw tables
    names,          \* what parse_genres and parse_keywords made of the cell
    wr,             \* arguments and results of compute_weighted_rating
    tables,         \* the raw movies, credits and keywords tables
    corpus          \* the rows of the cleaned dataset

vars == <<profile_json, prompt, pc, indexFaiss, artifact, fetches, failedAt,
          vectorstore, k, apc, searches, results, outcome, response,
          calls, cell, names, wr, tables, corpus>>

promptVars == <<profile_json, prompt>>
startupVars == <<pc, indexFaiss, artifact, fetches, failedAt, vectorstore>>
callVars == <<k, apc, searches, results, outcome, response>>
buildVars == <<cell, names, wr, tables, corpus>>
otherVars == <<calls, buildVars>>

----------------------------------------------------------------------------
(* Python values and call outcomes *)

Str(s) == [t |-> "str", v |-> s]
Num(n) == [t |-> "num", v |-> n]
None == [t |-> "none"]
List(items) == [t |-> "list", v |-> items]
Obj(mapping) == [t |-> "obj", v |-> mapping]

Return(value) == [kind |-> "return", value |-> value]
Raise(exc) == [kind |-> "raise", exc |-> exc]
NotCalled == [kind |-> "none"]

\* bool(x) of a Python value
Truthy(x) ==
    CASE x.t = "none" -> FALSE
      [] x.t = "num" -> x.v # 0
      [] x.t = "str" -> x.v # ""
      [] x.t = "list" -> Len(x.v) > 0
      [] x.t = "obj" -> DOMAIN x.v # {}

\* dict.get(key, default)
DictGet(d, key, default) == IF key \in DOMAIN d THEN d[key] ELSE default

RECURSIVE JoinStrings(_, _)
\* sep.join(items) for a sequence of TLA+ strings
JoinStrings(sep, items) ==
    IF Len(items) = 0 THEN ""
    ELSE IF Len(items) = 1 THEN items[1]
    ELSE items[1] \o sep \o JoinStrings(sep, Tail(items))

\* What iterating a Python value yields; Raise when it is not iterable.
\* A str iterates over its characters: the strings of the model that are
\* iterated have at most one character.
Iterate(x) ==
    CASE x.t = "list" -> Return(x.v)
      [] x.t = "str" -> Return(IF x.v = "" THEN <<>> ELSE <<Str(x.v)>>)
      [] OTHER -> Raise("TypeError")

\* sep.join(x) for a Python value x: TypeError unless x iterates over strs
StrJoin(sep, x) ==
    LET it == Iterate(x) IN
    IF it.kind = "raise" THEN it
    ELSE IF \E i \in 1..Len(it.value) : it.value[i].t # "str"
         THEN Raise("TypeError")
         ELSE Return(JoinStrings(sep, [i \in 1..Len(it.value) |-> it.value[i].v]))

----------------------------------------------------------------------------
(* build_search_prompt *)

\* A profile text is modelled by what json.loads makes of it: Unparsable,
\* or Text(value) for the text of the JSON value `value`.
Unparsable == [parses |-> FALSE]
Text(value) == [parses |-> TRUE, value |-> value]

JsonLoads(text) ==
    IF text.parses THEN Return(text.value) ELSE Raise("JSONDecodeError")

FallbackQuery == "Movies similar to the user's tastes"
LeadIn == "Recommend movies that match "

\* Faulty variant of Clauses: the decade clause rendered before the tone clause
ClausesDecadeFirst ==
    << [field |-> "genres", label |-> "genres: "],
       [field |-> "decade", label |-> "from the "],
       [field |-> "tone", label |-> "tone: "],
       [field |-> "people", label |-> "involving "],
       [field |-> "other_preferences", label |-> "themes: "] >>

\* the five `if profile.get(field): parts.append(label + join)` statements,
\* in the order of the source
Clauses == << [field |-> "genres", label |-> "genres: "],
              [field |-> "tone", label |-> "tone: "],
              [field |-> "decade", label |-> "from the "],
              [field |-> "people", label |-> "involving "],
              [field |-> "other_preferences", label |-> "themes: "] >>

\* One `if profile.get(f): parts.append(...)` statement run after `acc`
\* (the outcome so far: Return(parts) or a raised exception).
AppendClause(acc, profile, clause) ==
    IF acc.kind = "raise" THEN acc
    ELSE IF profile.t # "obj" THEN Raise("AttributeError")
    ELSE IF ~Truthy(DictGet(profile.v, clause.field, None)) THEN acc
    ELSE LET j == StrJoin(", ", profile.v[clause.field]) IN
         IF j.kind = "raise" THEN j
         ELSE Return(Append(acc.value, clause.label \o j.value))

RECURSIVE RunClauses(_, _, _)
RunClauses(acc, profile, i) ==
    IF i > Len(Clauses) THEN acc
    ELSE RunClauses(AppendClause(acc, profile, Clauses[i]), profile, i + 1)

BuildSearchPrompt(text) ==
    LET loaded == JsonLoads(text) IN
    IF loaded.kind = "raise" THEN Return(FallbackQuery)
    ELSE LET parts == RunClauses(Return(<<>>), loaded.value, 1) IN
         IF parts.kind = "raise" THEN parts
         ELSE Return(LeadIn \o JoinStrings(", ", parts.value))

----------------------------------------------------------------------------
(* The profile texts build_search_prompt is applied to *)

MaxItems == 2

Fields == {"genres", "tone", "decade", "people", "other_preferences"}

FieldWords ==
    [genres |-> <<"romance", "comedy", "drama">>,
     tone |-> <<"light-hearted", "dark", "tense">>,
     decade |-> <<"2000s", "1990s", "1980s">>,
     people |-> <<"Robin Williams", "Tom Hanks", "Nora Ephron">>,
     other_preferences |-> <<"feel-good", "happy ending", "space">>]

\* The list of the first n words of a field, as a Python list of strs.
WordList(f, n) == List([i \in 1..n |-> Str(FieldWords[f][i])])

\* c[f] = -1: the key f is absent; c[f] = n >= 0: f holds n words.
MkProfile(c) ==
    Obj([f \in {g \in Fields : c[g] >= 0} |-> WordList(f, c[f])])

WellFormedProfiles == {MkProfile(c) : c \in [Fields -> -1..MaxItems]}

ExampleProfile ==
    Obj([genres |-> WordList("genres", 2),
         tone |-> WordList("tone", 1),
         decade |-> WordList("decade", 1),
         people |-> WordList("people", 0),
         other_preferences |-> WordList("other_preferences", 1)])

\* JSON values that are no mapping
NonMappings == {None, Num(5), Str("x"), List(<<>>), List(<<Num(1), Num(2)>>)}

\* field values that are no list of strings
BadFieldValues ==
    {None, Num(0), Num(5), Str(""), Str("x"), List(<<Num(1)>>),
     List(<<Str("romance"), Num(1)>>)}

MalformedMappings ==
    {Obj((f :> b) @@ base.v) :
        base \in {Obj(<<>>), ExampleProfile}, f \in Fields, b \in BadFieldValues}

ProfileTexts ==
    {Unparsable} \cup
    {Text(v) : v \in NonMappings \cup WellFormedProfiles \cup MalformedMappings}

\* A well-formed profile: a mapping whose keys are among the five fields,
\* each holding a list of strings.
WellFormed(text) ==
    /\ text.parses
    /\ text.value.t = "obj"
    /\ DOMAIN text.value.v \subseteq Fields
    /\ \A f \in DOMAIN text.value.v :
          /\ text.value.v[f].t = "list"
          /\ \A i \in 1..Len(text.value.v[f].v) : text.value.v[f].v[i].t = "str"

----------------------------------------------------------------------------
(* Specification SpecPrompt: build_search_prompt applied to one text *)

StartupIdle ==
    /\ pc = "import"
    /\ indexFaiss = "absent"
    /\ artifact = <<>>
    /\ fetches = 0
    /\ failedAt = "none"
    /\ vectorstore = None

CallIdle ==
    /\ k = 0
    /\ apc = "idle"
    /\ searches = 0
    /\ results = NotCalled
    /\ outcome = NotCalled
    /\ response = NotCalled

\* no concurrent call made, nothing of the dataset build run
OtherIdle ==
    /\ calls = <<>>
    /\ cell = None
    /\ names = NotCalled
    /\ wr = NotCalled
    /\ tables = NotCalled
    /\ corpus = NotCalled

InitPrompt ==
    /\ profile_json \in ProfileTexts
    /\ prompt = NotCalled
    /\ StartupIdle
    /\ CallIdle
    /\ OtherIdle

CallBuildSearchPrompt ==
    /\ prompt = NotCalled
    /\ prompt' = BuildSearchPrompt(profile_json)
    /\ UNCHANGED <<profile_json, startupVars, callVars, otherVars>>

NextPrompt == CallBuildSearchPrompt

SpecPrompt == InitPrompt /\ [][NextPrompt]_vars

----------------------------------------------------------------------------
(* C4, C5: build_search_prompt *)

SpecFallbackQuery == "movies similar to the user's tastes"

\* C4: for every malformed profile text (unparsable, or parsing to something
\* other than a mapping of string lists) build_search_prompt returns the fixed
\* fallback string and never raises.  The letter case of the fallback's first
\* character is not held against the code here.
C4_TotalOnMalformed ==
    (prompt # NotCalled /\ ~WellFormed(profile_json)) =>
        /\ prompt.kind = "return"
        /\ prompt.value \in {SpecFallbackQuery, FallbackQuery}

SpecOrder == <<"genres", "tone", "decade", "people", "other_preferences">>

SpecLabel ==
    [genres |-> "genres: ", tone |-> "tone: ", decade |-> "from the ",
     people |-> "involving ", other_preferences |-> "themes: "]

Present(p, f) == f \in DOMAIN p /\ Len(p[f].v) > 0

ExpectedClauses(p) ==
    LET present == SelectSeq(SpecOrder, LAMBDA f : Present(p, f)) IN
    [i \in 1..Len(present) |->
        SpecLabel[present[i]] \o
        JoinStrings(", ", [j \in 1..Len(p[present[i]].v) |-> p[present[i]].v[j].v])]

\* C5: for every well-formed profile the query is the lead-in followed by one
\* labeled clause per non-empty field, none for an absent or empty field, in
\* the order genres, tone, decade, people, other_preferences, joined by ", ";
\* the example profile gives the example query.
C5_ClauseOrder ==
    (prompt # NotCalled /\ WellFormed(profile_json)) =>
        /\ prompt = Return("Recommend movies that match " \o
                           JoinStrings(", ", ExpectedClauses(profile_json.value.v)))
        /\ profile_json = Text(ExampleProfile) =>
              prompt.value = "Recommend movies that match genres: romance, comedy, tone: light-hearted, from the 2000s, themes: feel-good"

C5_Witness ==
    /\ profile_json = Text(ExampleProfile)
    /\ prompt.kind = "return"

----------------------------------------------------------------------------
(* analyze_trends: the loop over the search results *)

\* round(x, ndigits) on a number held as an integer count of units, `quantum`
\* units being one step of the rounded value: round half to even.
Round(x, quantum) ==
    LET lo == (x \div quantum) * quantum
        rest == x - lo
    IN  IF 2 * rest < quantum THEN lo
        ELSE IF 2 * rest > quantum THEN lo + quantum
        ELSE IF (lo \div quantum) % 2 = 0 THEN lo ELSE lo + quantum

\* Ratings are held in thousandths, scores in ten-thousandths: rounding a
\* rating to 2 decimals and a score to 3 decimals both round to tens.
Quantum == 10

\* float(round(x, n)) of a Python value: TypeError unless x is a number
RoundValue(x) ==
    IF x.t = "num" THEN Return(Num(Round(x.v, Quantum))) ELSE Raise("TypeError")

\* `if title not in seen_titles:` (faulty variant: the test left out)
NotSeenAlways(seen_titles, title) == TRUE

NotSeen(seen_titles, title) == title \notin seen_titles

\* `seen_titles.add(title)` (faulty variant: the add forgotten)
SeenAddForgotten(seen_titles, title) == seen_titles

SeenAdd(seen_titles, title) == seen_titles \cup {title}

\* `recommendations.append({...})` (faulty variant: inserted at the front)
RecommendationsPrepend(recommendations, candidate) ==
    <<candidate>> \o recommendations

RecommendationsAppend(recommendations, candidate) ==
    Append(recommendations, candidate)

\* The body of `for doc, score in results:` for one hit, run after `acc`:
\* acc is Raise(..) or Return([recommendations |-> .., seen_titles |-> ..]).
LoopBody(acc, hit) ==
    IF acc.kind = "raise" THEN acc
    ELSE LET title == DictGet(hit.metadata, "title", Str("Unknown")) IN
         IF ~NotSeen(acc.value.seen_titles, title) THEN acc
         ELSE LET rating == RoundValue(DictGet(hit.metadata, "rating", Num(0)))
                  score == RoundValue(Num(hit.score))
              IN  IF rating.kind = "raise" THEN rating
                  ELSE Return(
                      [seen_titles |-> SeenAdd(acc.value.seen_titles, title),
                       recommendations |->
                          RecommendationsAppend(acc.value.recommendations,
                             [title |-> title,
                              year |-> DictGet(hit.metadata, "year", None),
                              genres |-> DictGet(hit.metadata, "genres", None),
                              director |-> DictGet(hit.metadata, "director", None),
                              rating |-> rating.value,
                              score |-> score.value])])

RECURSIVE RunLoop(_, _, _)
RunLoop(acc, hits, i) ==
    IF i > Len(hits) THEN acc
    ELSE RunLoop(LoopBody(acc, hits[i]), hits, i + 1)

\* Lines 70-90 of analyze_trends on the hits the search returned.
Recommendations(hits) ==
    LET done == RunLoop(Return([seen_titles |-> {}, recommendations |-> <<>>]),
                        hits, 1)
    IN  IF done.kind = "raise" THEN done
        ELSE Return(done.value.recommendations)

----------------------------------------------------------------------------
(* The index artifact and the search *)

MaxK == 3
MaxScore == 6

\* Metadata of the documents an index may hold: two documents of one title,
\* documents lacking keys, and documents holding null values.
DocPool ==
    << [title |-> Str("Heat"), year |-> Num(1995), genres |-> List(<<Str("Crime")>>),
        director |-> Str("Michael Mann"), rating |-> Num(7654), vote_count |-> Num(1500)],
       [title |-> Str("Heat"), year |-> Num(1986), genres |-> List(<<Str("Comedy")>>),
        director |-> None, rating |-> Num(6125), vote_count |-> Num(12)],
       [year |-> Num(2001), vote_count |-> Num(3)],
       [genres |-> List(<<>>)],
       [title |-> None, year |-> None, genres |-> None, director |-> None,
        rating |-> Num(5005)],
       [title |-> Str("Solaris"), year |-> Num(1972), genres |-> List(<<Str("Drama")>>),
        director |-> Str("Andrei Tarkovsky"), rating |-> None] >>

\* The artifacts: the first n documents of the pool.
IndexChoices == {SubSeq(DocPool, 1, n) : n \in 1..Len(DocPool)}

Loaded(docs) == [t |-> "faiss", docs |-> docs]

Min(a, b) == IF a < b THEN a ELSE b

\* What similarity_search_with_score(query, k) may return on a loaded index:
\* min(k, size) distinct documents, each with its distance, in ascending
\* distance order.  Which documents and which distances is the embedding
\* backend's choice.
SearchHits(store, kk) ==
    LET n == IF kk <= 0 THEN 0 ELSE Min(kk, Len(store.docs))
        picks == {d \in [1..n -> 1..Len(store.docs)] :
                     \A i, j \in 1..n : i # j => d[i] # d[j]}
        dists == {s \in [1..n -> 0..MaxScore] :
                     \A i \in 1..n : i < n => s[i] <= s[i + 1]}
    IN  {[i \in 1..n |-> [metadata |-> store.docs[d[i]], score |-> s[i]]] :
            d \in picks, s \in dists}

----------------------------------------------------------------------------
(* Startup: the module body of agent/trend_analyst.py, run by the import *)

\* `if not os.path.exists(.../index.faiss)`
CheckIndex ==
    /\ pc = "import"
    /\ \/ indexFaiss = "absent" /\ pc' = "download"
       \/ indexFaiss # "absent" /\ pc' = "load"
    /\ UNCHANGED <<indexFaiss, artifact, fetches, failedAt, vectorstore,
                   promptVars, callVars, otherVars>>

\* Faulty variant of Download: a failed first attempt is tried again
DownloadRetried ==
    /\ pc = "download"
    /\ fetches' = fetches + 1
    /\ \/ pc' = "extract" /\ UNCHANGED failedAt
       \/ fetches = 0 /\ pc' = "download" /\ UNCHANGED failedAt
       \/ fetches > 0 /\ pc' = "fatal" /\ failedAt' = "urlretrieve"
    /\ UNCHANGED <<indexFaiss, artifact, vectorstore, promptVars, callVars, otherVars>>

\* urllib.request.urlretrieve(FAISS_URL, FAISS_ZIP) inside the try block:
\* it returns, or it raises and the except clause raises RuntimeError.
Download ==
    /\ pc = "download"
    /\ fetches' = fetches + 1
    /\ \/ pc' = "extract" /\ UNCHANGED failedAt
       \/ pc' = "fatal" /\ failedAt' = "urlretrieve"
    /\ UNCHANGED <<indexFaiss, artifact, vectorstore, promptVars, callVars, otherVars>>

\* zipfile.ZipFile(...).extractall(FAISS_DIR) inside the try block.  The
\* archive may unpack index.faiss in place or not hold it at that path; a
\* failing extraction may leave nothing or a partly written file.
Extract ==
    /\ pc = "extract"
    /\ \/ /\ indexFaiss' \in {"valid", "absent"}
          /\ pc' = "load"
          /\ UNCHANGED failedAt
       \/ /\ indexFaiss' \in {"absent", "corrupt"}
          /\ pc' = "fatal"
          /\ failedAt' = "extractall"
    /\ UNCHANGED <<artifact, fetches, vectorstore, promptVars, callVars, otherVars>>

\* vectorstore = FAISS.load_local(FAISS_DIR, ...): raises unless the directory
\* holds a valid index.
Load ==
    /\ pc = "load"
    /\ \/ /\ indexFaiss = "valid"
          /\ vectorstore' = Loaded(artifact)
          /\ pc' = "ready"
          /\ UNCHANGED failedAt
       \/ /\ indexFaiss # "valid"
          /\ pc' = "fatal"
          /\ failedAt' = "load_local"
          /\ UNCHANGED vectorstore
    /\ UNCHANGED <<indexFaiss, artifact, fetches, promptVars, callVars, otherVars>>

\* A process whose import failed is started again: the import runs afresh on
\* the files the failed run left.
Restart ==
    /\ pc = "fatal"
    /\ pc' = "import"
    /\ fetches' = 0
    /\ failedAt' = "none"
    /\ UNCHANGED <<indexFaiss, artifact, vectorstore, promptVars, callVars, otherVars>>

----------------------------------------------------------------------------
(* Serving: analyze_trends and its caller *)

\* Faulty variant of ServiceReady: ready once the index file is ensured present
ServiceReadyBeforeLoad == pc \in {"load", "ready"}

\* analyze_trends is bound only once `from .trend_analyst import
\* analyze_trends` has returned, that is once the module body has run to its
\* end without raising.
ServiceReady == pc = "ready"

\* The texts analyze_trends is called with: one whose query is built and
\* searched, one on which build_search_prompt raises.
CallProfiles == {Text(ExampleProfile), Text(List(<<>>))}

\* analyze_trends(profile_json, k) up to the point where the search has been
\* handed to the vectorstore: the query is built, then
\* similarity_search_with_score(query, k=k) is called with k as given.
CallAnalyzeTrends ==
    /\ ServiceReady
    /\ apc = "idle"
    /\ \E text \in CallProfiles, kk \in -1..MaxK :
          /\ profile_json' = text
          /\ k' = kk
          /\ prompt' = BuildSearchPrompt(text)
    /\ IF prompt'.kind = "raise"
       THEN /\ apc' = "done"
            /\ outcome' = prompt'
            /\ searches' = 0
       ELSE /\ apc' = "search"
            /\ outcome' = NotCalled
            /\ searches' = 1
    /\ results' = NotCalled
    /\ response' = NotCalled
    /\ UNCHANGED <<startupVars, otherVars>>

\* The search returns its hits and the rest of analyze_trends runs.
SearchReturns ==
    /\ apc = "search"
    /\ vectorstore # None
    /\ \E hits \in SearchHits(vectorstore, k) :
          /\ results' = Return(hits)
          /\ outcome' = Recommendations(hits)
    /\ apc' = "done"
    /\ UNCHANGED <<k, searches, response, promptVars, startupVars, otherVars>>

\* Faulty variant of SearchRaises: the failure swallowed, an empty list returned
SearchRaisesSwallowed ==
    /\ apc = "search"
    /\ results' = Raise("APIConnectionError")
    /\ outcome' = Return(<<>>)
    /\ apc' = "done"
    /\ UNCHANGED <<k, searches, response, promptVars, startupVars, otherVars>>

\* The embedding / search call raises: nothing in analyze_trends catches it.
SearchRaises ==
    /\ apc = "search"
    /\ results' = Raise("APIConnectionError")
    /\ outcome' = Raise("APIConnectionError")
    /\ apc' = "done"
    /\ UNCHANGED <<k, searches, response, promptVars, startupVars, otherVars>>

\* Faulty variant of Respond: an exception of the pipeline is not caught and
\* ends the serving process
RespondUncaught ==
    /\ apc = "done"
    /\ \/ /\ outcome.kind = "raise"
          /\ response' = NotCalled
          /\ pc' = "fatal"
          /\ failedAt' = outcome.exc
       \/ /\ outcome.kind = "return"
          /\ response' \in {[status |-> 200, detail |-> ""],
                            [status |-> 500, detail |-> "curation"]}
          /\ UNCHANGED <<pc, failedAt>>
    /\ apc' = "idle"
    /\ k' = 0
    /\ searches' = 0
    /\ results' = NotCalled
    /\ outcome' = NotCalled
    /\ prompt' = NotCalled
    /\ UNCHANGED <<profile_json, indexFaiss, artifact, fetches, vectorstore, otherVars>>

\* run_cinemind_pipeline fails in its first step: extract_user_profile raises
\* before analyze_trends is called, and recommend_movies answers 500.
ProfilerRaises ==
    /\ ServiceReady
    /\ apc = "idle"
    /\ response' = [status |-> 500, detail |-> "profiler"]
    /\ UNCHANGED <<k, apc, searches, results, outcome, promptVars, startupVars,
                   otherVars>>

\* The call is over: run_cinemind_pipeline goes on to curation (which may
\* itself raise) and recommend_movies answers 200, or 500 with the exception.
Respond ==
    /\ apc = "done"
    /\ \/ /\ outcome.kind = "raise"
          /\ response' = [status |-> 500, detail |-> outcome.exc]
       \/ /\ outcome.kind = "return"
          /\ response' \in {[status |-> 200, detail |-> ""],
                            [status |-> 500, detail |-> "curation"]}
    /\ apc' = "idle"
    /\ k' = 0
    /\ searches' = 0
    /\ results' = NotCalled
    /\ outcome' = NotCalled
    /\ prompt' = NotCalled
    /\ UNCHANGED <<profile_json, startupVars, otherVars>>

Init ==
    /\ profile_json = Unparsable
    /\ prompt = NotCalled
    /\ pc = "import"
    /\ indexFaiss \in {"absent", "valid", "corrupt"}
    /\ artifact \in IndexChoices
    /\ fetches = 0
    /\ failedAt = "none"
    /\ vectorstore = None
    /\ CallIdle
    /\ OtherIdle

Next ==
    \/ CheckIndex
    \/ Download
    \/ Extract
    \/ Load
    \/ Restart
    \/ ProfilerRaises
    \/ CallAnalyzeTrends
    \/ SearchReturns
    \/ SearchRaises
    \/ Respond

Spec == Init /\ [][Next]_vars

----------------------------------------------------------------------------
(* C1, C2, C3, C6, C7: analyze_trends *)

Returned == apc = "done" /\ outcome.kind = "return"

\* the title analyze_trends gives a hit
HitTitle(hit) ==
    IF "title" \in DOMAIN hit.metadata THEN hit.metadata.title ELSE Str("Unknown")

\* the position of the first hit bearing the title
FirstPos(hits, title) ==
    CHOOSE i \in 1..Len(hits) :
        /\ HitTitle(hits[i]) = title
        /\ \A j \in 1..(i - 1) : HitTitle(hits[j]) # title

\* C1: for k >= 1 the returned list has at most k candidates and no two of
\* them have the same title.
C1_AtMostKUniqueTitles ==
    (Returned /\ k >= 1) =>
        /\ Len(outcome.value) <= k
        /\ \A i, j \in 1..Len(outcome.value) :
              i # j => outcome.value[i].title # outcome.value[j].title

C1_Witness ==
    /\ Returned
    /\ k >= 1
    /\ Len(vectorstore.docs) > k
    /\ Len(outcome.value) = k

\* C2: a title the raw search result holds at two or more positions is in the
\* returned list exactly once, with the year, genres, director, rating and
\* score of its earliest occurrence.
C2_EarliestOccurrenceSurvives ==
    Returned =>
        \A i \in 1..Len(results.value) :
            LET hits == results.value
                title == HitTitle(hits[i])
                first == hits[FirstPos(hits, title)]
                kept == {c \in 1..Len(outcome.value) : outcome.value[c].title = title}
            IN  /\ Cardinality(kept) = 1
                /\ \A c \in kept :
                      /\ outcome.value[c].year = DictGet(first.metadata, "year", None)
                      /\ outcome.value[c].genres = DictGet(first.metadata, "genres", None)
                      /\ outcome.value[c].director =
                            DictGet(first.metadata, "director", None)
                      /\ outcome.value[c].rating =
                            Num(Round(DictGet(first.metadata, "rating", Num(0)).v, 10))
                      /\ outcome.value[c].score = Num(Round(first.score, 10))

C2_Witness ==
    /\ Returned
    /\ \E i, j \in 1..Len(results.value) :
          /\ i < j
          /\ HitTitle(results.value[i]) = HitTitle(results.value[j])
          /\ results.value[i].metadata # results.value[j].metadata
          /\ results.value[i].score < results.value[j].score

\* C3: the search returning its hits in ascending distance order, the
\* returned candidates are in non-decreasing score order and in the relative
\* order of the raw result.
C3_ScoreOrder ==
    Returned =>
        \A i \in 1..(Len(outcome.value) - 1) :
            /\ outcome.value[i].score.v <= outcome.value[i + 1].score.v
            /\ FirstPos(results.value, outcome.value[i].title)
                  < FirstPos(results.value, outcome.value[i + 1].title)

C3_Witness ==
    /\ Returned
    /\ Len(outcome.value) = 3
    /\ results.value[1].score < results.value[2].score
    /\ outcome.value[1].score = outcome.value[2].score
    /\ outcome.value[2].score.v < outcome.value[3].score.v

\* C6: a hit whose metadata lacks a field, or holds null in it, does not fail
\* the request: the call returns, a hit without a title gives a candidate
\* titled "Unknown" and a hit without a rating gives rating 0.
C6_MissingFieldsDegrade ==
    (apc = "done" /\ results.kind = "return") =>
        /\ outcome.kind = "return"
        /\ \A i \in 1..Len(results.value) :
              LET hit == results.value[i] IN
              /\ "title" \notin DOMAIN hit.metadata =>
                    \E c \in 1..Len(outcome.value) :
                        outcome.value[c].title = Str("Unknown")
              /\ (/\ "rating" \notin DOMAIN hit.metadata
                  /\ FirstPos(results.value, HitTitle(hit)) = i) =>
                    \E c \in 1..Len(outcome.value) :
                        /\ outcome.value[c].title = HitTitle(hit)
                        /\ outcome.value[c].rating = Num(0)

\* C7: a call with k <= 0 is rejected before any search is issued and returns
\* no candidate list.
C7_InvalidKRejected ==
    (apc # "idle" /\ k <= 0) =>
        /\ searches = 0
        /\ apc = "done"
        /\ outcome.kind = "raise"

----------------------------------------------------------------------------
(* C8, C9: startup *)

\* C8: no analyze_trends call runs before the ensure-present step and the
\* index load have completed, and no download, extraction or load happens
\* while a call runs.
C8_ReadinessGated ==
    /\ [](apc # "idle" =>
            /\ pc = "ready"
            /\ indexFaiss = "valid"
            /\ vectorstore = Loaded(artifact))
    /\ [][(fetches' # fetches \/ indexFaiss' # indexFaiss \/ vectorstore' # vectorstore)
             => (apc = "idle" /\ apc' = "idle")]_vars

C8_Witness ==
    /\ apc = "search"
    /\ fetches = 1
    /\ pc = "ready"

\* C9 as stated: a failed fetch is retried exactly once before startup
\* aborts, and the service never runs without the index.
C9_FetchRetriedOnce ==
    /\ failedAt = "urlretrieve" => (pc = "fatal" /\ fetches = 2)
    /\ pc = "ready" => (indexFaiss = "valid" /\ vectorstore = Loaded(artifact))

\* C9 amended: the fetch is attempted only when index.faiss is absent and at
\* most once per startup; when it (or the extraction) fails startup aborts at
\* once, without a retry; the service is ready only with the artifact loaded.
C9_FetchOnceFailFatal ==
    /\ fetches <= 1
    /\ pc = "download" => (indexFaiss = "absent" /\ fetches = 0)
    /\ failedAt \in {"urlretrieve", "extractall"} =>
          (pc = "fatal" /\ fetches = 1 /\ vectorstore = None)
    /\ pc = "fatal" => (failedAt # "none" /\ vectorstore = None)
    /\ pc = "ready" => (indexFaiss = "valid" /\ vectorstore = Loaded(artifact))

C9_Witness ==
    /\ pc = "fatal"
    /\ failedAt = "urlretrieve"
    /\ fetches = 1
    /\ indexFaiss = "absent"

----------------------------------------------------------------------------
(* C10: a failing search *)

\* C10 as stated: a failing search is retried once before the failure is
\* surfaced, and no list is returned in place of the error.
C10_SearchRetriedOnce ==
    (apc = "done" /\ results.kind = "raise") =>
        (searches = 2 /\ outcome.kind = "raise")

\* C10 amended: a failing search is not retried; the first failure is the
\* outcome of analyze_trends, no list is returned in its place, and the
\* caller is answered with that error.
C10_SearchFailureSurfaced ==
    /\ [](/\ searches <= 1
          /\ (apc = "done" /\ results.kind = "raise") =>
                (searches = 1 /\ outcome = results))
    /\ [][(apc = "done" /\ results.kind = "raise") =>
             response' = [status |-> 500, detail |-> results.exc]]_vars

C10_Witness ==
    /\ apc = "done"
    /\ results = Raise("APIConnectionError")
    /\ outcome = Raise("APIConnectionError")
    /\ searches = 1

----------------------------------------------------------------------------
(* C12: failure isolation at serving time *)

\* C12: a request whose profile extraction, retrieval or curation fails is
\* answered with an error; the failure leaves the service ready with the
\* index and every module global as they were and no trace of the request in
\* the state a later request starts from, so every other request is served
\* as if the failing one had not been made.
C12_FailureIsolated ==
    /\ [](response # NotCalled =>
            (pc = "ready" /\ vectorstore = Loaded(artifact) /\ apc = "idle"))
    /\ [][(apc = "done" /\ outcome.kind = "raise") =>
             /\ response' = [status |-> 500, detail |-> outcome.exc]
             /\ apc' = "idle" /\ k' = 0 /\ searches' = 0
             /\ results' = NotCalled /\ outcome' = NotCalled /\ prompt' = NotCalled]_vars
    /\ [][(apc # "idle" \/ apc' # "idle" \/ response' # response) =>
             (pc = "ready" /\ UNCHANGED startupVars)]_vars

\* a request failed in retrieval and the service is ready for the next
C12_Witness ==
    /\ response = [status |-> 500, detail |-> "APIConnectionError"]
    /\ ServiceReady
    /\ apc = "idle"
    /\ vectorstore = Loaded(artifact)

----------------------------------------------------------------------------
(* Specification SpecConcurrent: analyze_trends calls running concurrently  *)
(* on one loaded index.  Each call has its own profile_json, k, results,    *)
(* loop position, seen_titles and recommendations; the module global        *)
(* vectorstore is the one thing the calls share.  A call advances by one    *)
(* statement or loop iteration at a time, in any interleaving.              *)

NumCalls == 2
MaxConcurrentK == 2

ConcurrentArtifact == SubSeq(DocPool, 1, 3)

IdleCall ==
    [pc |-> "idle", profile_json |-> Unparsable, k |-> 0, query |-> NotCalled,
     results |-> NotCalled, i |-> 0, seen_titles |-> {},
     recommendations |-> <<>>, outcome |-> NotCalled]

\* The hits given to a concurrent call: those of SearchHits whose distances
\* are 0, 1, ... in order (which distances come back does not bear on what
\* the calls share).
ConcurrentHits(store, kk) ==
    {h \in SearchHits(store, kk) : \A i \in 1..Len(h) : h[i].score = i - 1}

\* Faulty variant of SeenTitles: one set of seen titles shared by all calls
SeenTitlesShared(cs, c) == UNION {cs[d].seen_titles : d \in DOMAIN cs}

\* `seen_titles = set()` is a local of the call: the set call c tests and
\* adds to is its own.
SeenTitles(cs, c) == cs[c].seen_titles

InitConcurrent ==
    /\ profile_json = Unparsable
    /\ prompt = NotCalled
    /\ pc = "ready"
    /\ indexFaiss = "valid"
    /\ artifact = ConcurrentArtifact
    /\ fetches = 0
    /\ failedAt = "none"
    /\ vectorstore = Loaded(ConcurrentArtifact)
    /\ CallIdle
    /\ calls = [c \in 1..NumCalls |-> IdleCall]
    /\ cell = None
    /\ names = NotCalled
    /\ wr = NotCalled
    /\ tables = NotCalled
    /\ corpus = NotCalled

ConcurrentUnchanged ==
    UNCHANGED <<promptVars, startupVars, callVars, buildVars>>

\* call c enters analyze_trends: the query is built and the search issued
ConcurrentCall(c) ==
    /\ ServiceReady
    /\ calls[c].pc = "idle"
    /\ \E kk \in 1..MaxConcurrentK :
          calls' = [calls EXCEPT ![c] =
                      [@ EXCEPT !.pc = "search",
                                !.profile_json = Text(ExampleProfile),
                                !.k = kk,
                                !.query = BuildSearchPrompt(Text(ExampleProfile))]]
    /\ ConcurrentUnchanged

\* the search of call c returns; `recommendations = []`, `seen_titles = set()`
ConcurrentSearchReturns(c) ==
    /\ calls[c].pc = "search"
    /\ \E hits \in ConcurrentHits(vectorstore, calls[c].k) :
          calls' = [calls EXCEPT ![c] =
                      [@ EXCEPT !.pc = "loop",
                                !.results = Return(hits),
                                !.i = 1,
                                !.seen_titles = {},
                                !.recommendations = <<>>]]
    /\ ConcurrentUnchanged

\* the search of call c raises, and so does the call
ConcurrentSearchRaises(c) ==
    /\ calls[c].pc = "search"
    /\ calls' = [calls EXCEPT ![c] =
                    [@ EXCEPT !.pc = "done",
                              !.results = Raise("APIConnectionError"),
                              !.outcome = Raise("APIConnectionError")]]
    /\ ConcurrentUnchanged

\* one iteration of `for doc, score in results:` in call c
ConcurrentLoopStep(c) ==
    /\ calls[c].pc = "loop"
    /\ calls[c].i <= Len(calls[c].results.value)
    /\ LET acc == LoopBody(Return([seen_titles |-> SeenTitles(calls, c),
                                   recommendations |-> calls[c].recommendations]),
                           calls[c].results.value[calls[c].i])
       IN  calls' = [calls EXCEPT ![c] =
                       IF acc.kind = "raise"
                       THEN [@ EXCEPT !.pc = "done", !.outcome = acc]
                       ELSE [@ EXCEPT !.i = @ + 1,
                                      !.seen_titles = acc.value.seen_titles,
                                      !.recommendations = acc.value.recommendations]]
    /\ ConcurrentUnchanged

\* `return recommendations` in call c
ConcurrentReturn(c) ==
    /\ calls[c].pc = "loop"
    /\ calls[c].i > Len(calls[c].results.value)
    /\ calls' = [calls EXCEPT ![c] =
                    [@ EXCEPT !.pc = "done",
                              !.outcome = Return(calls[c].recommendations)]]
    /\ ConcurrentUnchanged

NextConcurrent ==
    \E c \in 1..NumCalls :
        \/ ConcurrentCall(c)
        \/ ConcurrentSearchReturns(c)
        \/ ConcurrentSearchRaises(c)
        \/ ConcurrentLoopStep(c)
        \/ ConcurrentReturn(c)

SpecConcurrent == InitConcurrent /\ [][NextConcurrent]_vars

\* C11: in every interleaving of concurrent calls, no call changes the index,
\* its profile or anything another call reads, and each call returns the
\* list it would return run alone on the hits it was given.
C11_CallsIndependent ==
    /\ [](/\ vectorstore = Loaded(ConcurrentArtifact)
          /\ \A c \in 1..NumCalls :
                /\ calls[c].pc # "idle" => calls[c].profile_json = Text(ExampleProfile)
                /\ (calls[c].pc = "done" /\ calls[c].results.kind = "return") =>
                      calls[c].outcome = Recommendations(calls[c].results.value))
    /\ [][/\ vectorstore' = vectorstore
          /\ \A c, d \in 1..NumCalls :
                (c # d /\ calls'[c] # calls[c]) => calls'[d] = calls[d]]_vars

\* two calls were in their loops together over hits sharing a title, and
\* both have returned
C11_Witness ==
    /\ \A c \in 1..NumCalls :
          /\ calls[c].pc = "done"
          /\ calls[c].outcome.kind = "return"
          /\ calls[c].k = 2
          /\ Len(calls[c].outcome.value) = 2
    /\ calls[1].results.value[1].metadata = calls[2].results.value[2].metadata

----------------------------------------------------------------------------
(* data/build_master_dataset.py: parse_genres and parse_keywords *)

\* The text of a cell is modelled by its shape as Python source text:
\*   TList(items)     a list literal "[...]" holding the values `items`
\*   TQuoted(q, t)    a string literal in quotes q ("dq": ", "sq": ') whose
\*                    content is the text t
\*   TValue(v)        the literal of a value that is neither list nor str
\*   TMalformed(b)    text that is no Python literal; b: it starts with "["
\*                    and ends with "]"
\*   TEmpty           the empty text
\* A Python str value holding the text t is Str(t).
TList(items) == [form |-> "list", items |-> items]
TQuoted(q, t) == [form |-> "quoted", quote |-> q, inner |-> t]
TValue(value) == [form |-> "value", value |-> value]
TMalformed(b) == [form |-> "malformed", bracketed |-> b]
TEmpty == [form |-> "empty"]

\* A cell: NaN (missing), a float, or a str holding a text.
NaN == [t |-> "nan"]
Float == [t |-> "float"]

\* text.startswith("[") and text.endswith("]")
Bracketed(text) ==
    \/ text.form = "list"
    \/ text.form = "malformed" /\ text.bracketed

\* s.startswith('"[') and s.endswith(']"')
DoubleEncoded(text) ==
    text.form = "quoted" /\ text.quote = "dq" /\ Bracketed(text.inner)

\* ast.literal_eval(x): x must be a str holding the text of a literal
LiteralEval(x) ==
    IF x.t # "str" THEN Raise("ValueError")
    ELSE CASE x.v.form = "list" -> Return(List(x.v.items))
           [] x.v.form = "quoted" -> Return(Str(x.v.inner))
           [] x.v.form = "value" -> Return(x.v.value)
           [] x.v.form = "malformed" -> Raise("ValueError")
           [] x.v.form = "empty" -> Raise("SyntaxError")

\* pd.isna(x) or x in ("[]", "", None)
IsBlank(x) ==
    \/ x.t \in {"nan", "none"}
    \/ x.t = "str" /\ x.v \in {TList(<<>>), TEmpty}

\* [g["name"] for g in parsed if isinstance(g, dict) and "name" in g]
NamesOf(items) ==
    LET named == SelectSeq(items, LAMBDA g : g.t = "obj" /\ "name" \in DOMAIN g.v)
    IN  [i \in 1..Len(named) |-> named[i].v["name"]]

\* the `parsed = ast.literal_eval(..)` ... `return []` part both parsers share:
\* any exception gives []
EvalNames(x) ==
    LET parsed == LiteralEval(x) IN
    IF parsed.kind = "raise" THEN <<>>
    ELSE IF parsed.value.t = "list" THEN NamesOf(parsed.value.v)
    ELSE <<>>

ParseGenres(genre_str) ==
    IF IsBlank(genre_str) THEN <<>>
    ELSE IF genre_str.t = "str" /\ DoubleEncoded(genre_str.v)
         THEN LET unwrapped == LiteralEval(genre_str) IN
              IF unwrapped.kind = "raise" THEN <<>>
              ELSE EvalNames(unwrapped.value)
         ELSE EvalNames(genre_str)

ParseKeywords(kw_str) ==
    IF IsBlank(kw_str) THEN <<>> ELSE EvalNames(kw_str)

----------------------------------------------------------------------------
(* Specification SpecParse: both parsers applied to one cell *)

MaxEntries == 2

EntryPool ==
    {Obj([id |-> Num(28), name |-> Str("Action")]),
     Obj([id |-> Num(35), name |-> Str("Comedy")]),
     Obj([id |-> Num(7)]),
     None}

EntryLists == UNION {[1..n -> EntryPool] : n \in 0..MaxEntries}

Quotes == {"dq", "sq"}

CellTexts ==
    {TList(l) : l \in EntryLists}
    \cup {TQuoted(q, TList(l)) : q \in Quotes, l \in EntryLists}
    \cup {TQuoted("dq", TQuoted(q, TList(l))) : q \in Quotes, l \in EntryLists}
    \cup {TQuoted(q, TMalformed(b)) : q \in Quotes, b \in BOOLEAN}
    \cup {TMalformed(b) : b \in BOOLEAN}
    \cup {TEmpty, TValue(Num(5)), TValue(None)}

Cells == {NaN, None, Float} \cup {Str(t) : t \in CellTexts}

InitParse ==
    /\ profile_json = Unparsable
    /\ prompt = NotCalled
    /\ StartupIdle
    /\ CallIdle
    /\ calls = <<>>
    /\ cell \in Cells
    /\ names = NotCalled
    /\ wr = NotCalled
    /\ tables = NotCalled
    /\ corpus = NotCalled

\* movies["genres"].apply(parse_genres), keywords["keywords"].apply(parse_keywords)
ParseCell ==
    /\ names = NotCalled
    /\ names' = [genres |-> ParseGenres(cell), keywords |-> ParseKeywords(cell)]
    /\ UNCHANGED <<cell, wr, tables, corpus, calls, promptVars, startupVars, callVars>>

NextParse == ParseCell

SpecParse == InitParse /\ [][NextParse]_vars

\* a list all of whose entries are {id, name} records
RecordList(l) ==
    \A i \in 1..Len(l) : l[i].t = "obj" /\ DOMAIN l[i].v = {"id", "name"}

\* C13: for parse_genres and parse_keywords alike, the text of a list of
\* {id, name} records gives the names in order, that text wrapped in one more
\* level of string quoting gives the same names, and an empty, "[]", missing
\* or malformed cell gives the empty list.
C13_ParsersDecode ==
    names # NotCalled =>
        /\ \A l \in EntryLists :
              (RecordList(l) /\ (cell = Str(TList(l))
                                 \/ \E q \in Quotes : cell = Str(TQuoted(q, TList(l))))) =>
                  /\ names.genres = [i \in 1..Len(l) |-> l[i].v.name]
                  /\ names.keywords = [i \in 1..Len(l) |-> l[i].v.name]
        /\ (\/ cell \in {NaN, None, Str(TEmpty), Str(TList(<<>>))}
            \/ \E b \in BOOLEAN : cell = Str(TMalformed(b))) =>
              (names.genres = <<>> /\ names.keywords = <<>>)

----------------------------------------------------------------------------
(* data/build_master_dataset.py: compute_weighted_rating *)

\* Numbers are exact fractions num / den with den > 0.
Frac(n, d) == [num |-> n, den |-> d]
FracOfInt(x) == Frac(x, 1)
FracMul(f, g) == Frac(f.num * g.num, f.den * g.den)
FracAdd(f, g) == Frac(f.num * g.den + g.num * f.den, f.den * g.den)
FracLeq(f, g) == f.num * g.den <= g.num * f.den
FracEq(f, g) == f.num * g.den = g.num * f.den

\* Faulty variant of ComputeWeightedRating: the two weights exchanged
ComputeWeightedRatingSwapped(v, R, C, m) ==
    IF v + m > 0
    THEN FracAdd(FracMul(Frac(m, v + m), FracOfInt(R)),
                 FracMul(Frac(v, v + m), FracOfInt(C)))
    ELSE FracOfInt(R)

\* (v / (v + m)) * R + (m / (v + m)) * C if (v + m) > 0 else R
ComputeWeightedRating(v, R, C, m) ==
    IF v + m > 0
    THEN FracAdd(FracMul(Frac(v, v + m), FracOfInt(R)),
                 FracMul(Frac(m, v + m), FracOfInt(C)))
    ELSE FracOfInt(R)

----------------------------------------------------------------------------
(* Specification SpecRating: one movie rated at growing vote counts *)

MaxVotes == 4
MaxThreshold == 3
MaxRating == 4

\* wr.rated: w is the weighted rating at wr.v votes; wr.pv >= 0: pw is the
\* weighted rating computed before, at the smaller vote count pv.
InitRating ==
    /\ profile_json = Unparsable
    /\ prompt = NotCalled
    /\ StartupIdle
    /\ CallIdle
    /\ calls = <<>>
    /\ cell = None
    /\ names = NotCalled
    /\ \E R \in 1..MaxRating, C \in 0..MaxRating, m \in 0..MaxThreshold, v \in 0..MaxVotes :
          /\ R > C
          /\ wr = [v |-> v, R |-> R, C |-> C, m |-> m, rated |-> FALSE,
                   w |-> FracOfInt(0), pv |-> -1, pw |-> FracOfInt(0)]
    /\ tables = NotCalled
    /\ corpus = NotCalled

RatingUnchanged ==
    UNCHANGED <<cell, names, tables, corpus, calls, promptVars, startupVars, callVars>>

\* df.apply(lambda x: compute_weighted_rating(x["vote_count"], x["vote_average"], C, m))
Rate ==
    /\ ~wr.rated
    /\ wr' = [wr EXCEPT !.rated = TRUE,
                        !.w = ComputeWeightedRating(wr.v, wr.R, wr.C, wr.m)]
    /\ RatingUnchanged

\* the same movie, with the same R, C and m, rated again at a larger vote count
RateWithMoreVotes ==
    /\ wr.rated
    /\ \E v \in (wr.v + 1)..MaxVotes :
          wr' = [wr EXCEPT !.v = v,
                           !.w = ComputeWeightedRating(v, wr.R, wr.C, wr.m),
                           !.pv = wr.v,
                           !.pw = wr.w]
    /\ RatingUnchanged

NextRating == Rate \/ RateWithMoreVotes

SpecRating == InitRating /\ [][NextRating]_vars

\* C14 as stated: with v, m >= 0 and R > C the weighted rating is
\* non-decreasing in v, lies between C and R, equals C at v = 0, and is R
\* when v + m is not greater than 0.
C14_AsStated ==
    wr.rated =>
        /\ FracLeq(FracOfInt(wr.C), wr.w) /\ FracLeq(wr.w, FracOfInt(wr.R))
        /\ wr.pv >= 0 => FracLeq(wr.pw, wr.w)
        /\ wr.v = 0 => FracEq(wr.w, FracOfInt(wr.C))
        /\ wr.v + wr.m <= 0 => FracEq(wr.w, FracOfInt(wr.R))

\* C14 amended: the weighted rating is non-decreasing in v, lies between C
\* and R, equals C at v = 0 when m > 0, and is R when v + m is not greater
\* than 0 (at v = 0 with m = 0); it approaches R as v grows, its distance
\* from R being m * (R - C) / (v + m).
C14_WeightedRating ==
    wr.rated =>
        /\ FracLeq(FracOfInt(wr.C), wr.w) /\ FracLeq(wr.w, FracOfInt(wr.R))
        /\ wr.pv >= 0 => FracLeq(wr.pw, wr.w)
        /\ (wr.v = 0 /\ wr.m > 0) => FracEq(wr.w, FracOfInt(wr.C))
        /\ wr.v + wr.m <= 0 => FracEq(wr.w, FracOfInt(wr.R))
        /\ wr.v + wr.m > 0 =>
              FracEq(FracMul(FracAdd(FracOfInt(wr.R), Frac(-wr.w.num, wr.w.den)),
                             FracOfInt(wr.v + wr.m)),
                     FracOfInt(wr.m * (wr.R - wr.C)))

\* a movie rated at 0 votes and again with more votes, strictly nearer R
C14_Witness ==
    /\ wr.rated
    /\ wr.pv = 0
    /\ wr.m > 0
    /\ FracEq(wr.pw, FracOfInt(wr.C))
    /\ ~FracLeq(wr.w, wr.pw)
    /\ ~FracLeq(FracOfInt(wr.R), wr.w)

----------------------------------------------------------------------------
(* data/build_master_dataset.py: joins, drop_duplicates, dropna *)

RECURSIVE Concat(_)
Concat(frames) ==
    IF frames = <<>> THEN <<>> ELSE Head(frames) \o Concat(Tail(frames))

\* the right-hand columns of a left row that matches nothing (NaN)
NoMatch == [id |-> 0, row |-> 0]

\* left.merge(right, how="left") on the id: the rows of left in their order,
\* each once per matching row of right, in right's order, or once with NaN;
\* column is the column that right adds
LeftMerge(left, right, column) ==
    Concat([i \in 1..Len(left) |->
              LET ms == SelectSeq(right, LAMBDA r : r.id = left[i].id)
              IN  IF ms = <<>>
                  THEN <<(column :> NoMatch.row) @@ left[i]>>
                  ELSE [n \in 1..Len(ms) |-> (column :> ms[n].row) @@ left[i]]])

\* ratings.groupby("movieId"): one row per rated movie id
RatingsGrouped(ratings) ==
    LET firsts == SelectSeq([i \in 1..Len(ratings) |-> [id |-> ratings[i], row |-> i]],
                            LAMBDA r : \A j \in 1..(r.row - 1) : ratings[j] # r.id)
    IN  firsts

\* df after the three merges (the weighted_rating column changes no row)
Joined(t) ==
    LeftMerge(LeftMerge(LeftMerge(t.movies, RatingsGrouped(t.ratings), "user_rating_count"),
                        t.credits, "director"),
              t.keywords, "keywords")

RECURSIVE DropDuplicatesFrom(_, _)
DropDuplicatesFrom(rows, seen) ==
    IF rows = <<>> THEN <<>>
    ELSE IF Head(rows).id \in seen
         THEN DropDuplicatesFrom(Tail(rows), seen)
         ELSE <<Head(rows)>> \o DropDuplicatesFrom(Tail(rows), seen \cup {Head(rows).id})

ReverseRows(rows) == [i \in 1..Len(rows) |-> rows[Len(rows) + 1 - i]]

\* Faulty variant of DropDuplicates: keep="last"
DropDuplicatesKeepLast(rows) ==
    ReverseRows(DropDuplicatesFrom(ReverseRows(rows), {}))

\* df.drop_duplicates(subset=["id"]): keep="first" is the default
DropDuplicates(rows) ==
    DropDuplicatesFrom(rows, {})

\* df.dropna(subset=["title", "overview"])
DropNa(rows) ==
    SelectSeq(rows, LAMBDA r : r.title # None /\ r.overview # None)

----------------------------------------------------------------------------
(* Specification SpecCorpus: one run of the corpus build over small tables *)

MaxRows == 2
MovieIds == {862, 8844}
Titles == {Str("Heat"), None}
Overviews == {Str("A heist."), None}

SeqsUpTo(S, lo, hi) == UNION {[1..n -> S] : n \in lo..hi}

\* movies after the id clean-up: every id is an integer; titles and overviews
\* of empty cells are null
MovieTables ==
    {[i \in DOMAIN rows |-> [row |-> i] @@ rows[i]] :
        rows \in SeqsUpTo([id : MovieIds, title : Titles, overview : Overviews], 1, MaxRows)}

\* credits.csv and keywords.csv: any ids, repeated or not
KeyedTables ==
    {[i \in DOMAIN ids |-> [id |-> ids[i], row |-> i]] : ids \in SeqsUpTo(MovieIds, 0, MaxRows)}

\* ratings_small.csv: the movieId of each rating
RatingTables == {<<>>, <<862>>, <<862, 862>>}

InitCorpus ==
    /\ profile_json = Unparsable
    /\ prompt = NotCalled
    /\ StartupIdle
    /\ CallIdle
    /\ calls = <<>>
    /\ cell = None
    /\ names = NotCalled
    /\ wr = NotCalled
    /\ \E movies \in MovieTables, credits \in KeyedTables, keywords \in KeyedTables,
          ratings \in RatingTables :
          tables = [step |-> "loaded", movies |-> movies, ratings |-> ratings,
                    credits |-> credits, keywords |-> keywords, joined |-> <<>>]
    /\ corpus = <<>>

\* lines 100-122: merge, merge, merge, drop_duplicates, dropna
BuildMaster ==
    /\ tables.step = "loaded"
    /\ tables' = [tables EXCEPT !.step = "built", !.joined = Joined(tables)]
    /\ corpus' = DropNa(DropDuplicates(Joined(tables)))
    /\ UNCHANGED <<cell, names, wr, calls, promptVars, startupVars, callVars>>

NextCorpus == BuildMaster

SpecCorpus == InitCorpus /\ [][NextCorpus]_vars

\* C15: after the build no two rows of the final corpus share an id, each
\* kept row is the first row with its id in the joined table, and no kept
\* row has a null title or a null overview.
C15_DedupFirstNoNull ==
    tables.step = "built" =>
        /\ \A i, j \in DOMAIN corpus : corpus[i].id = corpus[j].id => i = j
        /\ \A i \in DOMAIN corpus :
              \E p \in DOMAIN tables.joined :
                  /\ tables.joined[p] = corpus[i]
                  /\ \A q \in 1..(p - 1) : tables.joined[q].id # corpus[i].id
        /\ \A i \in DOMAIN corpus : corpus[i].title # None /\ corpus[i].overview # None

\* the joins multiplied the rows, and a kept row had a later duplicate
C15_Witness ==
    /\ tables.step = "built"
    /\ Len(tables.joined) > Len(tables.movies)
    /\ \E i \in DOMAIN corpus : \E p, q \in DOMAIN tables.joined :
          /\ p < q
          /\ tables.joined[p] = corpus[i]
          /\ tables.joined[q].id = corpus[i].id
          /\ tables.joined[q] # corpus[i]
    /\ \E p \in DOMAIN tables.joined : tables.joined[p].title = None

====
